---- MODULE Spec2Model ----
(***************************************************************************)
(* A model of qutex.rs: a queue-backed exclusive data lock.                *)
(*                                                                         *)
(* One Inner (state, cell, queue) is shared through handles (Arc).  Each   *)
(* request r is one call of Qutex::lock: the FutureGuard it returns and    *)
(* the Guard that future resolves to.  Requests are numbered in the order  *)
(* of their lock() calls.  Further callers, DirectCallers, are threads     *)
(* that call the public unsafe functions unlock and process_queue through  *)
(* a handle.  process_queue is modelled one shared-memory access per step  *)
(* (the compare_and_swap, the try_pop, the send, the store), and the drop  *)
(* of a future one field per step, so that every interleaving of polls,    *)
(* drops and direct calls is covered.  A future is driven either by polls  *)
(* of its owner (who keeps it and may drop it) or by wait(), which takes   *)
(* the future and drops it when it returns or unwinds.                     *)
(***************************************************************************)
EXTENDS Integers, Sequences, FiniteSets, TLC

\* ---------------------------------------------------------------- bounds
NReq == 3
MaxHandles == 4
MaxVal == 1
NDirect == 2
MaxUnsafeReq == 2

Req == 1..NReq
Values == 0..MaxVal

\* The threads that call Qutex::unlock and Qutex::process_queue from
\* outside a poll and a guard drop (both take &self: any number of them can
\* be inside a call at the same time).
DirectCallers == (NReq + 1)..(NReq + NDirect)
Callers == Req \cup DirectCallers

\* Program positions of a request, and of the direct caller (d_*).
PcValues ==
    {"idle", "pending",
     "p_pop", "p_send", "p_revert", "p_ok", "p_err",
     "guard",
     "u_cas", "u_pop", "u_send", "u_revert", "u_ok", "u_err",
     "d_cas", "d_pop", "d_send", "d_revert", "d_ok", "d_err",
     "done", "dropping", "cancelled", "rx_canceled", "panicked", "aborted"}

VARIABLES
    state,      \* Inner.state: 0 unlocked, 1 locked
    cell,       \* Inner.cell: the guarded value
    queue,      \* Inner.queue: the requests pushed and not yet popped
    strong,     \* the Arc's strong count
    free,       \* handles held directly by callers (not inside a future or a guard)
    pc,         \* position of each request and of the direct caller
    req,        \* the Request popped by the process_queue call in progress of r (0: none)
    chan,       \* oneshot channel of r: "none", "open", "sent", "closed" (sender dropped unsent)
    rxAlive,    \* the Receiver of r (a field of its FutureGuard) has not been dropped
    notified,   \* the task waiting on r has to poll (first poll, or woken by the sender)
    parked,     \* a task is registered with the receiver of r (by an rx.poll that was
                \* not ready) and has not been woken since
    waited,     \* wait() was called on the future of r: the call owns the future
    gm,         \* result of the most recent get_mut: "nocall", "some", "none"
    lastRead,   \* value obtained by the most recent read through a guard (-1: no read yet)
    ptr,        \* the raw pointers to the cell that callers have obtained and keep
    rawRead,    \* value obtained by the most recent read through a raw pointer
                \* (-1: no read yet, -2: the read faulted)
    fault,      \* an access through a raw pointer has faulted: the process is killed
    written,    \* value most recently written through a guard (the construction value at first)
    granted,    \* the requests in the order their guards were produced
    helped,     \* the other request whose channel the latest poll of r has fired (0: none)
    misuse,     \* a poll of a completed future has panicked ("Task already completed")
    serial,     \* every lock() so far was issued while no guard existed
    batch,      \* no lock() was issued after a poll, and no future dropped unresolved
    dropView    \* what the guard drop in progress found when it began: the queue's
                \* head (0: empty) and the queued requests whose future was alive

vars == <<state, cell, queue, strong, free, pc, req, chan, rxAlive, notified, parked, waited,
          gm, lastRead, ptr, rawRead, fault, written, granted, helped, misuse, serial, batch,
          dropView>>

\* ------------------------------------------------------- pure operators

\* (mutant) a compare-and-swap that succeeds whatever the current value is
CompareAndSwapBlind(cur, expected, new) ==
    [prev |-> expected, next |-> new]

\* (mutant) a load in place of the compare-and-swap: nothing is stored
CompareAndSwapLoadOnly(cur, expected, new) ==
    [prev |-> cur, next |-> cur]

\* AtomicUsize::compare_and_swap: returns the previous value; stores new
\* when the previous value is the expected one.
CompareAndSwap(cur, expected, new) ==
    [prev |-> cur, next |-> IF cur = expected THEN new ELSE cur]

\* (mutant) a push at the front of the queue
PushFront(q, x) == <<x>> \o q

\* SegQueue::push
Push(q, x) == Append(q, x)

\* (mutant) a try_pop that takes the newest entry
TryPopLast(q) ==
    IF q = <<>> THEN [item |-> 0, rest |-> q]
    ELSE [item |-> q[Len(q)], rest |-> SubSeq(q, 1, Len(q) - 1)]

\* SegQueue::try_pop: the oldest entry, or none (0) with the queue unchanged.
TryPop(q) ==
    IF q = <<>> THEN [item |-> 0, rest |-> q]
    ELSE [item |-> Head(q), rest |-> Tail(q)]

\* (mutant) a send that succeeds although the receiver is gone
SendOkAlways(alive) == TRUE

\* oneshot::Sender::send: fails when the receiver has been dropped.
SendOk(alive) == alive

\* (mutant) get_mut that tolerates one other handle
GetMutResultLax(count) == IF count <= 2 THEN "some" ELSE "none"

\* Arc::get_mut(..).map(..): a reference only for the one and only handle.
GetMutResult(count) == IF count = 1 THEN "some" ELSE "none"

\* (mutant) a deref that yields a default value instead of the cell's
DerefDefault(c) == 0

\* Guard::deref
Deref(c) == c

\* The handles that exist: the callers', one per future whose lock field
\* is Some and not yet dropped, one per guard not yet destroyed.
HoldsHandle(r) ==
    pc[r] \in {"pending", "p_pop", "p_send", "p_revert", "p_ok", "p_err", "rx_canceled",
               "guard", "u_cas", "u_pop", "u_send", "u_revert", "u_ok", "u_err"}
LiveHandles == free + Cardinality({r \in Req : HoldsHandle(r)})

\* A guard is live from the poll that returns it until its drop stores 0.
GuardLive(r) == pc[r] = "guard"
\* A guard exists until its destructor has returned.
GuardExists(r) == pc[r] \in {"guard", "u_cas", "u_pop", "u_send", "u_revert", "u_ok", "u_err"}

\* The future of r has returned its guard (its lock field is None).
Completed(r) ==
    pc[r] \in {"guard", "u_cas", "u_pop", "u_send", "u_revert", "u_ok", "u_err",
               "done", "panicked"}

Locked(r) == pc[r] # "idle"
InQueue(r) == \E i \in 1..Len(queue) : queue[i] = r

\* The handle a direct call in progress borrows (&self) cannot be moved or
\* dropped meanwhile.
Borrowed == IF \A d \in DirectCallers : pc[d] = "idle" THEN 0 ELSE 1

\* No guard drop is in progress.
NoDrop == [head |-> 0, alive |-> {}]

TypeOK ==
    /\ state \in {0, 1}
    /\ cell \in Values
    /\ queue \in Seq(Req)
    /\ strong \in 0..MaxHandles
    /\ free \in 0..MaxHandles
    /\ strong = LiveHandles
    /\ pc \in [Callers -> PcValues]
    /\ req \in [Callers -> 0..NReq]
    /\ chan \in [Req -> {"none", "open", "sent", "closed"}]
    /\ rxAlive \in [Req -> BOOLEAN]
    /\ notified \in [Req -> BOOLEAN]
    /\ parked \in [Req -> BOOLEAN]
    /\ waited \in [Req -> BOOLEAN]
    /\ gm \in {"nocall", "some", "none"}
    /\ lastRead \in Values \cup {-1}
    /\ ptr \in SUBSET {"const", "mut"}
    /\ rawRead \in Values \cup {-1, -2}
    /\ fault \in BOOLEAN
    /\ written \in Values
    /\ granted \in Seq(Req)
    /\ helped \in [Req -> 0..NReq]
    /\ misuse \in BOOLEAN
    /\ serial \in BOOLEAN
    /\ batch \in BOOLEAN
    /\ dropView \in [head : 0..NReq, alive : SUBSET Req]

\* ------------------------------------------------------------------ Init
\* Qutex::new(val): state 0, the value, an empty queue, one handle.
Init ==
    /\ state = 0
    /\ cell \in Values
    /\ written = cell
    /\ queue = <<>>
    /\ strong = 1
    /\ free = 1
    /\ pc = [r \in Callers |-> "idle"]
    /\ req = [r \in Callers |-> 0]
    /\ chan = [r \in Req |-> "none"]
    /\ rxAlive = [r \in Req |-> FALSE]
    /\ notified = [r \in Req |-> FALSE]
    /\ parked = [r \in Req |-> FALSE]
    /\ waited = [r \in Req |-> FALSE]
    /\ gm = "nocall"
    /\ lastRead = -1
    /\ ptr = {}
    /\ rawRead = -1
    /\ fault = FALSE
    /\ granted = <<>>
    /\ helped = [r \in Req |-> 0]
    /\ misuse = FALSE
    /\ serial = TRUE
    /\ batch = TRUE
    /\ dropView = NoDrop

\* --------------------------------------------------------------- handles

\* Clone for Qutex
Clone ==
    /\ free >= 1
    /\ strong < MaxHandles
    /\ strong' = strong + 1
    /\ free' = free + 1
    /\ UNCHANGED <<fault, waited, parked, misuse, helped, ptr, rawRead, dropView, state, cell, queue, pc, req, chan, rxAlive, notified,
                   gm, lastRead, written, granted, serial, batch>>

\* Drop of one handle (Arc).  Dropping the last one destroys Inner and
\* with it the queue.  What becomes of the senders still queued is the
\* doing of SegQueue's destructor, which is not part of this source: either
\* it drops them (each channel is closed unfired, and a task registered
\* with its receiver is woken), or it leaks them (the channels stay open
\* for ever).
ArcDrop ==
    /\ strong' = strong - 1
    /\ IF strong = 1
       THEN /\ queue' = <<>>
            /\ \E dropped \in BOOLEAN :
                 /\ chan' = [q \in Req |-> IF dropped /\ InQueue(q) THEN "closed" ELSE chan[q]]
                 /\ notified' = [q \in Req |-> IF dropped /\ InQueue(q) /\ parked[q]
                                                THEN TRUE ELSE notified[q]]
                 /\ parked' = [q \in Req |-> IF dropped /\ InQueue(q) THEN FALSE ELSE parked[q]]
       ELSE UNCHANGED <<queue, chan, notified, parked>>

\* A caller drops a handle.
DropHandle ==
    /\ free - Borrowed >= 1
    /\ free' = free - 1
    /\ ArcDrop
    /\ UNCHANGED <<fault, waited, misuse, helped, ptr, rawRead, dropView, state, cell, pc, req, rxAlive,
                   gm, lastRead, written, granted, serial, batch>>

\* Qutex::get_mut: the call and its result.
GetMut ==
    /\ free - Borrowed >= 1
    /\ gm' = GetMutResult(strong)
    /\ UNCHANGED <<fault, waited, parked, misuse, helped, ptr, rawRead, dropView, state, cell, queue, strong, free, pc, req, chan, rxAlive,
                   notified, lastRead, written, granted, serial, batch>>

\* Qutex::get_mut returning Some(&mut T), and an assignment through the
\* reference.
GetMutWrite(v) ==
    /\ free - Borrowed >= 1
    /\ GetMutResult(strong) = "some"
    /\ gm' = "some"
    /\ cell' = v
    /\ UNCHANGED <<fault, waited, parked, misuse, helped, ptr, rawRead, dropView, state, queue, strong, free, pc, req, chan, rxAlive,
                   notified, lastRead, written, granted, serial, batch>>

\* Qutex::as_ptr: the pointer is returned to the caller, who keeps it; it
\* borrows nothing.
AsPtr ==
    /\ free >= 1
    /\ ptr' = ptr \cup {"const"}
    /\ UNCHANGED <<fault, waited, parked, misuse, helped, rawRead, dropView, state, cell, queue, strong, free, pc, req, chan, rxAlive,
                   notified, gm, lastRead, written, granted, serial, batch>>

\* Qutex::as_mut_ptr
AsMutPtr ==
    /\ free >= 1
    /\ ptr' = ptr \cup {"mut"}
    /\ UNCHANGED <<fault, waited, parked, misuse, helped, rawRead, dropView, state, cell, queue, strong, free, pc, req, chan, rxAlive,
                   notified, gm, lastRead, written, granted, serial, batch>>

\* A read through a pointer obtained earlier (the caller's unsafe code),
\* whatever became of the handle since.  Once Inner is destroyed the read
\* is a use after free: it yields any value, or faults.
RawRead ==
    /\ ~fault
    /\ ptr # {}
    /\ IF strong > 0
       THEN rawRead' = cell
       ELSE rawRead' \in Values \cup {-2}
    /\ fault' = (rawRead' = -2)
    /\ UNCHANGED <<waited, parked, misuse, helped, ptr, lastRead, dropView, state, cell, queue, strong, free, pc, req, chan, rxAlive,
                   notified, gm, written, granted, serial, batch>>

\* An assignment through a pointer obtained earlier from as_mut_ptr (the
\* caller's unsafe code).  Once Inner is destroyed the write is a use after
\* free: the memory that was the cell holds any value afterwards, or the
\* write faults.
RawWrite(v) ==
    /\ ~fault
    /\ "mut" \in ptr
    /\ IF strong > 0
       THEN /\ cell' = v
            /\ fault' = FALSE
       ELSE \/ /\ cell' \in Values
               /\ fault' = FALSE
            \/ /\ cell' = cell
               /\ fault' = TRUE
    /\ UNCHANGED <<waited, parked, misuse, helped, ptr, rawRead, dropView, state, queue, strong, free, pc, req, chan, rxAlive,
                   notified, gm, lastRead, written, granted, serial, batch>>

\* (mutant) a lock() that drops its handle in place of moving it into the
\* future
LockDropsHandle(r) ==
    /\ pc[r] = "idle"
    /\ \A q \in Req : q < r => Locked(q)
    /\ free - Borrowed >= 1
    /\ free' = free - 1
    /\ strong' = strong - 1
    /\ queue' = IF strong = 1 THEN << >> ELSE Push(queue, r)
    /\ \E dropped \in BOOLEAN :
         chan' = [q \in Req |-> IF strong = 1 /\ dropped /\ (q = r \/ InQueue(q)) THEN "closed"
                                ELSE IF q = r THEN "open" ELSE chan[q]]
    /\ rxAlive' = [rxAlive EXCEPT ![r] = TRUE]
    /\ notified' = [notified EXCEPT ![r] = TRUE]
    /\ pc' = [pc EXCEPT ![r] = "pending"]
    /\ serial' = (serial /\ \A q \in Req : ~GuardExists(q))
    /\ batch' = (batch /\ \A q \in Req : pc[q] = "idle" \/ (pc[q] = "pending" /\ notified[q] /\ chan[q] = "open"))
    /\ UNCHANGED <<fault, waited, parked, misuse, helped, ptr, rawRead, dropView, state, cell, req, gm, lastRead, written, granted>>

\* Qutex::lock: a new channel, its sender pushed, the handle and the
\* receiver moved into the FutureGuard.
Lock(r) ==
    /\ pc[r] = "idle"
    /\ \A q \in Req : q < r => Locked(q)
    /\ free - Borrowed >= 1
    /\ free' = free - 1
    /\ queue' = Push(queue, r)
    /\ chan' = [chan EXCEPT ![r] = "open"]
    /\ rxAlive' = [rxAlive EXCEPT ![r] = TRUE]
    /\ notified' = [notified EXCEPT ![r] = TRUE]
    /\ pc' = [pc EXCEPT ![r] = "pending"]
    /\ serial' = (serial /\ \A q \in Req : ~GuardExists(q))
    /\ batch' = (batch /\ \A q \in Req : pc[q] = "idle" \/ (pc[q] = "pending" /\ notified[q] /\ chan[q] = "open"))
    /\ UNCHANGED <<fault, waited, parked, misuse, helped, ptr, rawRead, dropView, state, cell, strong, req, gm, lastRead, written, granted>>

\* Qutex::lock, for the first MaxUnsafeReq requests only: the requests
\* that take part in the behaviours with direct calls and raw pointers.
LockBounded(r) ==
    /\ r <= MaxUnsafeReq
    /\ Lock(r)

\* ------------------------------------------------------- process_queue
\* The steps of one process_queue call made by caller r: by a poll of its
\* future (positions p_*), by the drop of its guard (u_*), or directly (d_*).

InPoll(r) == pc[r] \in {"pending", "p_pop", "p_send", "p_revert"}
InUnlock(r) == pc[r] \in {"u_cas", "u_pop", "u_send", "u_revert"}
AtPop(r) == IF InPoll(r) THEN "p_pop" ELSE IF InUnlock(r) THEN "u_pop" ELSE "d_pop"
AtSend(r) == IF InPoll(r) THEN "p_send" ELSE IF InUnlock(r) THEN "u_send" ELSE "d_send"
AtRevert(r) == IF InPoll(r) THEN "p_revert" ELSE IF InUnlock(r) THEN "u_revert" ELSE "d_revert"
AtOk(r) == IF InPoll(r) THEN "p_ok" ELSE IF InUnlock(r) THEN "u_ok" ELSE "d_ok"
AtErr(r) == IF InPoll(r) THEN "p_err" ELSE IF InUnlock(r) THEN "u_err" ELSE "d_err"

\* compare_and_swap(0, 1): 0 -> go on to pop; 1 -> Ok(()); any other
\* value -> panic.
ProcessQueueCas(r) ==
    LET cas == CompareAndSwap(state, 0, 1) IN
      /\ state' = cas.next
      /\ pc' = [pc EXCEPT ![r] = IF cas.prev = 0 THEN AtPop(r)
                                 ELSE IF cas.prev = 1 THEN AtOk(r)
                                 ELSE "aborted"]

\* queue.try_pop()
ProcessQueuePop(r) ==
    /\ pc[r] \in {"p_pop", "u_pop", "d_pop"}
    /\ LET p == TryPop(queue) IN
         /\ queue' = p.rest
         /\ req' = [req EXCEPT ![r] = p.item]
         /\ pc' = [pc EXCEPT ![r] = IF p.item # 0 THEN AtSend(r) ELSE AtRevert(r)]
    /\ UNCHANGED <<fault, waited, parked, misuse, helped, ptr, rawRead, dropView, state, cell, strong, free, chan, rxAlive, notified,
                   gm, lastRead, written, granted, serial, batch>>

\* (mutant) a process_queue that gives the lock back when its send fails
ProcessQueueSendRelease(r) ==
    /\ pc[r] \in {"p_send", "u_send", "d_send"}
    /\ LET q == req[r] IN
         IF SendOk(rxAlive[q])
         THEN /\ chan' = [chan EXCEPT ![q] = "sent"]
              /\ notified' = [notified EXCEPT ![q] = notified[q] \/ parked[q]]
              /\ parked' = [parked EXCEPT ![q] = FALSE]
              /\ pc' = [pc EXCEPT ![r] = AtOk(r)]
              /\ helped' = IF pc[r] = "p_send" /\ q # r
                           THEN [helped EXCEPT ![r] = q]
                           ELSE helped
              /\ state' = state
         ELSE /\ chan' = [chan EXCEPT ![q] = "closed"]
              /\ UNCHANGED <<notified, parked>>
              /\ pc' = [pc EXCEPT ![r] = AtErr(r)]
              /\ helped' = helped
              /\ state' = 0
    /\ req' = [req EXCEPT ![r] = 0]
    /\ UNCHANGED <<fault, waited, misuse, ptr, rawRead, dropView, cell, queue, strong, free, rxAlive,
                   gm, lastRead, written, granted, serial, batch>>

\* req.tx.send(()).map_err(..): the value is stored and the sender dropped,
\* which wakes the task registered with the receiver, if there is one; with
\* the receiver gone the send fails and nobody is woken.
ProcessQueueSend(r) ==
    /\ pc[r] \in {"p_send", "u_send", "d_send"}
    /\ LET q == req[r] IN
         IF SendOk(rxAlive[q])
         THEN /\ chan' = [chan EXCEPT ![q] = "sent"]
              /\ notified' = [notified EXCEPT ![q] = notified[q] \/ parked[q]]
              /\ parked' = [parked EXCEPT ![q] = FALSE]
              /\ pc' = [pc EXCEPT ![r] = AtOk(r)]
              /\ helped' = IF pc[r] = "p_send" /\ q # r
                           THEN [helped EXCEPT ![r] = q]
                           ELSE helped
         ELSE /\ chan' = [chan EXCEPT ![q] = "closed"]
              /\ UNCHANGED <<notified, parked>>
              /\ pc' = [pc EXCEPT ![r] = AtErr(r)]
              /\ helped' = helped
    /\ req' = [req EXCEPT ![r] = 0]
    /\ UNCHANGED <<fault, waited, misuse, ptr, rawRead, dropView, state, cell, queue, strong, free, rxAlive,
                   gm, lastRead, written, granted, serial, batch>>

\* (mutant) a process_queue that forgets to store 0 after an empty pop
ProcessQueueRevertNoStore(r) ==
    /\ pc[r] \in {"p_revert", "u_revert", "d_revert"}
    /\ pc' = [pc EXCEPT ![r] = AtOk(r)]
    /\ UNCHANGED <<fault, waited, parked, misuse, helped, ptr, rawRead, state, dropView, cell, queue, strong, free, req, chan, rxAlive, notified,
                   gm, lastRead, written, granted, serial, batch>>

\* state.store(0); Ok(())
ProcessQueueRevert(r) ==
    /\ pc[r] \in {"p_revert", "u_revert", "d_revert"}
    /\ state' = 0
    /\ pc' = [pc EXCEPT ![r] = AtOk(r)]
    /\ UNCHANGED <<fault, waited, parked, misuse, helped, ptr, rawRead, dropView, cell, queue, strong, free, req, chan, rxAlive, notified,
                   gm, lastRead, written, granted, serial, batch>>

\* ------------------------------------------------------ FutureGuard::poll

\* poll of an unresolved future: lock.is_some(), then process_queue.
FuturePoll(r) ==
    /\ pc[r] = "pending"
    /\ ProcessQueueCas(r)
    /\ helped' = [helped EXCEPT ![r] = 0]
    /\ UNCHANGED <<fault, parked, misuse, ptr, rawRead, dropView, cell, queue, strong, free, req, chan, rxAlive, notified,
                   gm, lastRead, written, granted, serial, batch>>

\* A poll by the owner of the future, from a task of its own, at any time.
Poll(r) ==
    /\ ~waited[r]
    /\ FuturePoll(r)
    /\ UNCHANGED waited

\* FutureGuard::wait(self): the call takes the future and polls it at once;
\* the calling thread then blocks, and polls again each time it is woken.
Wait(r) ==
    /\ ~waited[r] \/ notified[r]
    /\ FuturePoll(r)
    /\ waited' = [waited EXCEPT ![r] = TRUE]

\* process_queue returned Ok: self.rx.poll().  Ready: the handle moves
\* into the Guard and the future stays behind, completed; wait() returns
\* the guard and drops the future it took (its lock field is None, its
\* receiver is dropped), a polling owner keeps it.  Canceled: the error is
\* returned.  NotReady: the task is registered with the receiver and parked
\* until the sender wakes it.
PollRx(r) ==
    /\ pc[r] = "p_ok"
    /\ IF chan[r] = "sent"
       THEN /\ pc' = [pc EXCEPT ![r] = "guard"]
            /\ granted' = Append(granted, r)
            /\ rxAlive' = [rxAlive EXCEPT ![r] = ~waited[r]]
            /\ UNCHANGED <<notified, parked>>
       ELSE IF chan[r] = "closed"
       THEN /\ pc' = [pc EXCEPT ![r] = "rx_canceled"]
            /\ UNCHANGED <<notified, parked, granted, rxAlive>>
       ELSE /\ pc' = [pc EXCEPT ![r] = "pending"]
            /\ notified' = [notified EXCEPT ![r] = FALSE]
            /\ parked' = [parked EXCEPT ![r] = TRUE]
            /\ UNCHANGED <<granted, rxAlive>>
    /\ UNCHANGED <<fault, waited, misuse, helped, ptr, rawRead, dropView, state, cell, queue, strong, free, req, chan,
                   gm, lastRead, written, serial, batch>>

\* process_queue returned Err: expect() panics, before rx.poll (no task is
\* registered).  poll borrows the future (&mut self): polled by its owner,
\* the future is still there, unresolved, and it is the owner who drops it
\* (DropFuture) or keeps it.  Polled by wait(), the future is in wait's
\* frame and the unwinding drops it: first its lock field (the handle is
\* released), the receiver next (DropFutureRx).
PollPanic(r) ==
    /\ pc[r] = "p_err"
    /\ IF waited[r]
       THEN /\ pc' = [pc EXCEPT ![r] = "dropping"]
            /\ ArcDrop
            /\ batch' = FALSE
       ELSE /\ pc' = [pc EXCEPT ![r] = "pending"]
            /\ notified' = [notified EXCEPT ![r] = FALSE]
            /\ UNCHANGED <<strong, queue, chan, parked, batch>>
    /\ UNCHANGED <<fault, waited, misuse, helped, ptr, rawRead, dropView, state, cell, free, req, rxAlive,
                   gm, lastRead, written, granted, serial>>

\* (mutant) a future whose drop gives back a grant it has received
DropFutureRelease(r) ==
    /\ pc[r] = "rx_canceled" \/ (pc[r] = "pending" /\ ~waited[r])
    /\ pc' = [pc EXCEPT ![r] = "dropping"]
    /\ ArcDrop
    /\ batch' = FALSE
    /\ state' = IF chan[r] = "sent" THEN 0 ELSE state
    /\ UNCHANGED <<fault, waited, misuse, helped, ptr, rawRead, dropView, cell, free, req, rxAlive,
                   gm, lastRead, written, granted, serial>>

\* Drop of an unresolved future by its owner (a future that wait() has
\* taken is no longer the caller's to drop; wait drops it itself once a
\* poll has returned the cancellation), first field: lock (the handle is
\* released).  The queue entry, if not yet popped, stays as long as Inner
\* does.
DropFuture(r) ==
    /\ pc[r] = "rx_canceled" \/ (pc[r] = "pending" /\ ~waited[r])
    /\ pc' = [pc EXCEPT ![r] = "dropping"]
    /\ ArcDrop
    /\ batch' = FALSE
    /\ UNCHANGED <<fault, waited, misuse, helped, ptr, rawRead, dropView, state, cell, free, req, rxAlive,
                   gm, lastRead, written, granted, serial>>

\* Drop of an unresolved future, second field: rx (the receiver is gone
\* and the task registered with it forgotten; a send fails from here on).
DropFutureRx(r) ==
    /\ ~fault
    /\ pc[r] = "dropping"
    /\ pc' = [pc EXCEPT ![r] = "cancelled"]
    /\ rxAlive' = [rxAlive EXCEPT ![r] = FALSE]
    /\ parked' = [parked EXCEPT ![r] = FALSE]
    /\ UNCHANGED <<fault, waited, misuse, helped, ptr, rawRead, dropView, state, cell, queue, strong, free, req, chan, notified,
                   gm, lastRead, written, granted, serial, batch>>

\* (mutant) a poll of a completed future that hands out the guard again
PollCompletedAgain(r) ==
    /\ ~fault
    /\ Completed(r)
    /\ rxAlive[r]
    /\ Len(granted) < 2 * NReq
    /\ granted' = Append(granted, r)
    /\ UNCHANGED <<fault, waited, parked, misuse, helped, ptr, rawRead, dropView, state, cell, queue, strong, free, pc, req, chan, rxAlive,
                   notified, gm, lastRead, written, serial, batch>>

\* poll of a future that has returned its guard to its polling owner:
\* self.lock is None and the call panics before process_queue and rx.poll.
\* Nothing of the lock is changed; the future is still there and can be
\* polled again.  (After wait() there is no future left to poll.)
PollCompleted(r) ==
    /\ ~fault
    /\ Completed(r)
    /\ rxAlive[r]
    /\ misuse' = TRUE
    /\ UNCHANGED <<fault, waited, parked, helped, ptr, rawRead, dropView, state, cell, queue, strong, free, pc, req, chan, rxAlive,
                   notified, gm, lastRead, written, granted, serial, batch>>

\* Drop of a completed future by its owner: its lock field is None, its
\* receiver is dropped.
DropCompleted(r) ==
    /\ ~fault
    /\ Completed(r)
    /\ rxAlive[r]
    /\ rxAlive' = [rxAlive EXCEPT ![r] = FALSE]
    /\ UNCHANGED <<fault, waited, parked, misuse, helped, ptr, rawRead, dropView, state, cell, queue, strong, free, pc, req, chan,
                   notified, gm, lastRead, written, granted, serial, batch>>

\* ----------------------------------------------------------------- Guard

\* Guard::deref
Read(r) ==
    /\ pc[r] = "guard"
    /\ lastRead' = Deref(cell)
    /\ UNCHANGED <<fault, waited, parked, misuse, helped, ptr, rawRead, dropView, state, cell, queue, strong, free, pc, req, chan, rxAlive,
                   notified, gm, written, granted, serial, batch>>

\* Guard::deref_mut, and an assignment through it
Write(r, v) ==
    /\ pc[r] = "guard"
    /\ cell' = v
    /\ written' = v
    /\ UNCHANGED <<fault, waited, parked, misuse, helped, ptr, rawRead, dropView, state, queue, strong, free, pc, req, chan, rxAlive,
                   notified, gm, lastRead, granted, serial, batch>>

\* (mutant) an unlock that runs process_queue without storing 0 first
UnlockNoStore(r) ==
    /\ pc[r] = "guard"
    /\ pc' = [pc EXCEPT ![r] = "u_cas"]
    /\ dropView' = [head |-> IF queue = <<>> THEN 0 ELSE Head(queue),
                    alive |-> {q \in Req : InQueue(q) /\ rxAlive[q]}]
    /\ UNCHANGED <<fault, waited, parked, misuse, helped, ptr, rawRead, state, cell, queue, strong, free, req, chan, rxAlive, notified,
                   gm, lastRead, written, granted, serial, batch>>

\* Guard::drop -> Qutex::unlock: state.store(0), then process_queue.
Unlock(r) ==
    /\ pc[r] = "guard"
    /\ state' = 0
    /\ pc' = [pc EXCEPT ![r] = "u_cas"]
    /\ dropView' = [head |-> IF queue = <<>> THEN 0 ELSE Head(queue),
                    alive |-> {q \in Req : InQueue(q) /\ rxAlive[q]}]
    /\ UNCHANGED <<fault, waited, parked, misuse, helped, ptr, rawRead, cell, queue, strong, free, req, chan, rxAlive, notified,
                   gm, lastRead, written, granted, serial, batch>>

UnlockCas(r) ==
    /\ pc[r] = "u_cas"
    /\ ProcessQueueCas(r)
    /\ UNCHANGED <<fault, waited, parked, misuse, helped, ptr, rawRead, dropView, cell, queue, strong, free, req, chan, rxAlive, notified,
                   gm, lastRead, written, granted, serial, batch>>

\* unlock returned: Ok -> the drop returns; Err -> expect() panics.  Either
\* way the guard's handle is released.
GuardDropped(r) ==
    /\ pc[r] \in {"u_ok", "u_err"}
    /\ pc' = [pc EXCEPT ![r] = IF pc[r] = "u_ok" THEN "done" ELSE "panicked"]
    /\ dropView' = NoDrop
    /\ ArcDrop
    /\ UNCHANGED <<fault, waited, misuse, helped, ptr, rawRead, state, cell, free, req, rxAlive,
                   gm, lastRead, written, granted, serial, batch>>

\* ------------------------------------------- direct calls (pub unsafe fn)

\* Qutex::unlock called by a holder of a handle: state.store(0), then
\* process_queue.  The code has no precondition: the call is possible
\* whether or not a guard is live.
DirectUnlock(d) ==
    /\ pc[d] = "idle"
    /\ free >= 1
    /\ state' = 0
    /\ pc' = [pc EXCEPT ![d] = "d_cas"]
    /\ UNCHANGED <<fault, waited, parked, misuse, helped, ptr, rawRead, dropView, cell, queue, strong, free, req, chan, rxAlive, notified,
                   gm, lastRead, written, granted, serial, batch>>

\* the process_queue call of a direct unlock
DirectUnlockCas(d) ==
    /\ pc[d] = "d_cas"
    /\ ProcessQueueCas(d)
    /\ UNCHANGED <<fault, waited, parked, misuse, helped, ptr, rawRead, dropView, cell, queue, strong, free, req, chan, rxAlive, notified,
                   gm, lastRead, written, granted, serial, batch>>

\* Qutex::process_queue called by a holder of a handle.
DirectProcessQueue(d) ==
    /\ pc[d] = "idle"
    /\ free >= 1
    /\ ProcessQueueCas(d)
    /\ UNCHANGED <<fault, waited, parked, misuse, helped, ptr, rawRead, dropView, cell, queue, strong, free, req, chan, rxAlive, notified,
                   gm, lastRead, written, granted, serial, batch>>

\* The direct call returns its Result to the caller: Ok(()) or
\* Err("Qutex queue has been dropped"), no panic.
DirectReturn(d) ==
    /\ pc[d] \in {"d_ok", "d_err"}
    /\ pc' = [pc EXCEPT ![d] = "idle"]
    /\ UNCHANGED <<fault, waited, parked, misuse, helped, ptr, rawRead, dropView, state, cell, queue, strong, free, req, chan, rxAlive, notified,
                   gm, lastRead, written, granted, serial, batch>>

\* ------------------------------------------------------------------ Next
\* The steps of polls, of drops of futures and of drops of guards.
Progress ==
    \/ \E r \in Req : Poll(r)
    \/ \E r \in Req : Wait(r)
    \/ \E r \in Req : ProcessQueuePop(r)
    \/ \E r \in Req : ProcessQueueSend(r)
    \/ \E r \in Req : ProcessQueueRevert(r)
    \/ \E r \in Req : PollRx(r)
    \/ \E r \in Req : PollPanic(r)
    \/ \E r \in Req : DropFuture(r)
    \/ \E r \in Req : DropFutureRx(r)
    \/ \E r \in Req : Unlock(r)
    \/ \E r \in Req : UnlockCas(r)
    \/ \E r \in Req : GuardDropped(r)

\* The steps of the lock protocol through clone, lock, poll, the drop of a
\* handle, of a future and of a guard.
Protocol ==
    \/ Clone
    \/ DropHandle
    \/ \E r \in Req : Lock(r)
    \/ Progress

\* The same with MaxUnsafeReq requests.
ProtocolBounded ==
    \/ Clone
    \/ DropHandle
    \/ \E r \in Req : LockBounded(r)
    \/ Progress

\* What a caller can do with a future that has returned its guard.
CompletedFuture ==
    \/ \E r \in Req : PollCompleted(r)
    \/ \E r \in Req : DropCompleted(r)

\* The accesses to the value through the safe interface.
Access ==
    \/ GetMut
    \/ \E v \in Values : GetMutWrite(v)
    \/ \E r \in Req : Read(r)
    \/ \E r \in Req, v \in Values : Write(r, v)

\* The calls of the public unsafe functions from outside poll and drop.
DirectCalls ==
    \/ \E d \in DirectCallers : DirectUnlock(d)
    \/ \E d \in DirectCallers : DirectUnlockCas(d)
    \/ \E d \in DirectCallers : DirectProcessQueue(d)
    \/ \E d \in DirectCallers : ProcessQueuePop(d)
    \/ \E d \in DirectCallers : ProcessQueueSend(d)
    \/ \E d \in DirectCallers : ProcessQueueRevert(d)
    \/ \E d \in DirectCallers : DirectReturn(d)

\* The accesses through the raw pointers.
RawAccess ==
    \/ AsPtr
    \/ AsMutPtr
    \/ RawRead
    \/ \E v \in Values : RawWrite(v)

\* Every operation of the public interface.
Next ==
    \/ Protocol
    \/ CompletedFuture
    \/ Access
    \/ DirectCalls
    \/ RawAccess

Spec == Init /\ [][Next]_vars

\* lock, poll, future drop and guard drop alone.
ProtocolSpec == Init /\ [][Protocol]_vars

\* The protocol, and polls and drops of completed futures.
FutureSpec == Init /\ [][Protocol \/ CompletedFuture]_vars

\* The protocol, and the accesses to the value through guards and get_mut.
AccessSpec == Init /\ [][Protocol \/ Access]_vars

\* The protocol, and the accesses to the value through guards, get_mut and
\* the raw pointers.
RawSpec == Init /\ [][ProtocolBounded \/ Access \/ RawAccess]_vars

\* The protocol, and direct calls of unlock and process_queue.
UnsafeSpec == Init /\ [][ProtocolBounded \/ DirectCalls]_vars

\* Scheduling: every pending future is waited on; a thread inside poll or
\* inside a guard's drop keeps running; a thread blocked in wait() polls
\* when it is woken; the drop of a future, once begun, is completed; a
\* guard is eventually dropped.  Nothing obliges callers to clone, lock,
\* drop a future, or poll a future themselves.  The accesses to the value,
\* the polls of completed futures and the direct calls are left out of the
\* fair behaviours.
Fairness ==
    \A r \in Req :
        /\ WF_vars(Wait(r))
        /\ WF_vars(ProcessQueuePop(r))
        /\ WF_vars(ProcessQueueSend(r))
        /\ WF_vars(ProcessQueueRevert(r))
        /\ WF_vars(PollRx(r))
        /\ WF_vars(PollPanic(r))
        /\ WF_vars(DropFutureRx(r))
        /\ WF_vars(Unlock(r))
        /\ WF_vars(UnlockCas(r))
        /\ WF_vars(GuardDropped(r))

FairSpec == Init /\ [][Protocol]_vars /\ Fairness

\* ---------------------------------------------------------------- claims

LiveGuards == {r \in Req : GuardLive(r)}

\* C1: mutual exclusion.  Under every interleaving of lock, poll, future
\* drop and guard drop, at most one Guard is live at any instant (a guard
\* is live from the poll that returns it until its drop stores 0).
C1_MutualExclusion == Cardinality(LiveGuards) <= 1

\* A guard is live while another request, queued behind it, has been polled
\* and found the lock taken.
C1_Witness ==
    \E r, q \in Req :
        /\ r # q
        /\ GuardLive(r)
        /\ pc[q] = "pending" /\ ~notified[q] /\ InQueue(q)

\* C3: FIFO under serialized release.  When every lock() is issued one
\* after another and only while no Guard exists (each Guard was dropped
\* before the next lock()), guards are produced in enqueue order: requests
\* are numbered by their lock() calls, so the grant sequence is increasing.
C3_FifoSerial ==
    serial => \A i, j \in 1..Len(granted) : i < j => granted[i] < granted[j]

\* Under the discipline two requests at least were granted: the first has
\* released its guard and the latest holds its own.
C3_Witness ==
    /\ serial
    /\ Len(granted) >= 2
    /\ pc[granted[Len(granted)]] = "guard"
    /\ pc[granted[1]] = "done"

\* C5 as claimed: the cell always holds the value most recently written
\* through a guard (the construction value before any such write), and
\* every read through a guard yields that value.
C5_Original ==
    /\ [](cell = written)
    /\ [][\A r \in Req : Read(r) => lastRead' = written]_vars

\* C5, amended: the value changes only by an assignment through a live
\* guard, through the reference get_mut returns to the holder of the only
\* handle, or through a raw pointer obtained from as_mut_ptr (at any time
\* after that, also while a guard is live); lock, poll, the drops and the
\* grants never change it; and a read through a guard yields the value
\* the cell holds, that is, the value most recently assigned in one of
\* these three ways (the construction value at first).
C5_ValuePersists ==
    /\ [][cell' # cell =>
            \/ \E r \in Req, v \in Values : GuardLive(r) /\ Write(r, v)
            \/ \E v \in Values : strong = 1 /\ free = 1 /\ GetMutWrite(v)
            \/ \E v \in Values : "mut" \in ptr /\ RawWrite(v)]_vars
    /\ [][\A r \in Req, v \in Values : Write(r, v) => (cell' = v /\ written' = v)]_vars
    /\ [][\A v \in Values : (GetMutWrite(v) \/ (RawWrite(v) /\ strong > 0)) =>
            (cell' = v /\ written' = written)]_vars
    /\ [][\A r \in Req : Read(r) => (lastRead' = cell /\ cell' = cell)]_vars

\* The only handle went into a lock() after as_mut_ptr was called; the
\* guard of that request is live and has read a value that no guard and no
\* get_mut reference has written: it was assigned through the pointer.
C5_Witness ==
    /\ \E r \in Req : GuardLive(r) /\ granted = <<r>>
    /\ strong = 1 /\ free = 0
    /\ "mut" \in ptr
    /\ gm = "nocall"
    /\ cell # written
    /\ lastRead = cell

\* C7: get_mut returns a reference exactly when the calling handle is the
\* only handle in existence (callers' handles, and those inside unresolved
\* futures and guards), whatever the status and the queue are.
C7_GetMutGating ==
    [][GetMut => (gm' = "some" <=> LiveHandles = 1)]_vars

\* get_mut has returned a reference, there is one handle, and yet the
\* status is locked and the queue is not empty.
C7_Witness ==
    /\ gm = "some"
    /\ LiveHandles = 1 /\ free = 1
    /\ state = 1
    /\ queue # <<>>

\* The future of r has been dropped, or is being dropped, without having
\* produced a guard.
FutureDropped(r) == pc[r] \in {"dropping", "cancelled"}

\* A grant has failed: a send found the receiver dropped, and its sender
\* was dropped with it (Inner is still there).
Stalled == strong > 0 /\ \E q \in Req : chan[q] = "closed"

\* C6: idempotent no-op.  A process_queue call that wins the
\* compare-and-swap (the status was Unlocked) and finds the queue empty
\* fires no notifier, leaves the queue as it is, stores Unlocked and
\* returns Ok; with no concurrent push the state it leaves is the one it
\* started from, so repeating it changes nothing.
C6_IdempotentNoOp ==
    /\ [][\A d \in DirectCallers : (DirectProcessQueue(d) /\ state = 0) =>
            (pc'[d] = "d_pop" /\ state' = 1 /\ queue' = queue /\ chan' = chan)]_vars
    /\ [][\A r \in Callers : (ProcessQueuePop(r) /\ queue = <<>>) =>
            /\ queue' = <<>>
            /\ req'[r] = 0
            /\ pc'[r] \in {"p_revert", "u_revert", "d_revert"}
            /\ state' = state
            /\ chan' = chan]_vars
    /\ [][\A r \in Callers : ProcessQueueRevert(r) =>
            /\ state' = 0
            /\ pc'[r] \in {"p_ok", "u_ok", "d_ok"}
            /\ queue' = queue /\ chan' = chan /\ cell' = cell]_vars
    /\ [][\A d \in DirectCallers : (DirectReturn(d) /\ pc[d] = "d_ok") =>
            (pc'[d] = "idle" /\ state' = state /\ queue' = queue /\ chan' = chan)]_vars
    /\ [](\A r \in Callers : pc[r] \in {"p_revert", "u_revert", "d_revert"} => req[r] = 0)

\* process_queue was called on a lock nobody has asked for: the call found
\* the status Unlocked and the queue empty, and is about to return Ok with
\* both as they were and nothing fired.
C6_Witness ==
    /\ \E d \in DirectCallers : pc[d] = "d_ok" /\ \A e \in DirectCallers \ {d} : pc[e] = "idle"
    /\ \A q \in Req : pc[q] = "idle" /\ chan[q] = "none"
    /\ state = 0 /\ queue = <<>>
    /\ granted = <<>>

\* C10: failed grant.  Dropping a pending future leaves its entry in the
\* queue (as long as Inner itself survives); the process_queue call that
\* pops this entry removes exactly that one entry, its send fails, it
\* returns the error without popping again, no notifier is fired, no guard
\* is produced, and the status is left Locked.
C10_FailedGrant ==
    /\ [][\A r \in Req : ((DropFuture(r) \/ DropFutureRx(r)) /\ strong' > 0) =>
            queue' = queue]_vars
    /\ [][\A r \in Req : (ProcessQueuePop(r) /\ queue # <<>>) =>
            /\ queue' = Tail(queue)
            /\ req'[r] = Head(queue)]_vars
    /\ [][\A r \in Req : (ProcessQueueSend(r) /\ pc[req[r]] = "cancelled") =>
            /\ pc'[r] \in {"p_err", "u_err"}
            /\ queue' = queue
            /\ chan'[req[r]] # "sent"
            /\ \A q \in Req : chan'[q] = "sent" => chan[q] = "sent"
            /\ granted' = granted
            /\ state = 1 /\ state' = 1]_vars
    /\ [](\A r \in Req : pc[r] \in {"p_err", "u_err"} =>
            /\ state = 1
            /\ \A q \in Req : ~GuardLive(q))
    /\ [][\A r \in Req : pc[r] \in {"p_err", "u_err"} =>
            /\ pc'[r] \in {"p_err", "u_err", "pending", "dropping", "panicked"}
            /\ (queue' = queue \/ strong' = 0 \/ \E q \in Req : Lock(q))]_vars

\* A poll popped the entry of a dropped future: it is about to return the
\* error, a live request is still queued behind, and the status is Locked.
C10_Witness ==
    \E r, q \in Req :
        /\ pc[r] = "p_err"
        /\ InQueue(q) /\ rxAlive[q] /\ chan[q] = "open"
        /\ state = 1
        /\ \E d \in Req : pc[d] = "cancelled" /\ chan[d] = "closed"

\* C8 as claimed: the queue held, when the guard drop began, a request
\* whose future was alive (and no future was dropped since); then once the
\* process_queue call of the drop has made its send, the notifier of the
\* request that was at the head has been fired and the status is Locked.
C8_Original ==
    [][\A r \in Req :
          (/\ pc[r] = "u_send" /\ ProcessQueueSend(r)
           /\ dropView.alive # {}
           /\ \A q \in dropView.alive : rxAlive[q]) =>
              (chan'[dropView.head] = "sent" /\ state' = 1)]_vars

\* C8, amended: the drop of a guard stores Unlocked and then runs
\* process_queue before it returns; when that call wins the
\* compare-and-swap it pops the head of the queue, and if the receiver of
\* that head is alive its notifier is fired and the status is Locked when
\* the call returns Ok; if the head's future was dropped nothing is fired
\* and the call returns the error, whatever is queued behind.
C8_ReleaseHandOff ==
    /\ [][\A r \in Req : Unlock(r) => (state' = 0 /\ pc'[r] = "u_cas")]_vars
    /\ [][\A r \in Req : (pc'[r] \in {"done", "panicked"} /\ pc[r] # pc'[r]) =>
            pc[r] \in {"u_ok", "u_err"}]_vars
    /\ [][\A r \in Req : (pc[r] = "u_pop" /\ ProcessQueuePop(r) /\ queue # <<>>) =>
            req'[r] = Head(queue)]_vars
    /\ [][\A r \in Req : (pc[r] = "u_send" /\ ProcessQueueSend(r)) =>
            IF ~rxAlive[req[r]]
            THEN /\ pc'[r] = "u_err"
                 /\ \A q \in Req : chan'[q] = "sent" => chan[q] = "sent"
            ELSE /\ pc'[r] = "u_ok"
                 /\ chan'[req[r]] = "sent"
                 /\ notified'[req[r]] = (notified[req[r]] \/ parked[req[r]])
                 /\ state' = 1]_vars

\* The drop of a guard found a live request at the head of the queue, has
\* fired it and is about to return, the status being Locked again.
C8_Witness ==
    \E r \in Req :
        /\ pc[r] = "u_ok"
        /\ dropView.head # 0
        /\ dropView.head \in dropView.alive
        /\ chan[dropView.head] = "sent"
        /\ pc[dropView.head] = "pending" /\ notified[dropView.head]
        /\ state = 1
        /\ \A q \in Req \ {r, dropView.head} : pc[q] \in {"idle", "done"}

\* C9 as claimed: once a grant has failed, a later process_queue call (from
\* a poll or a release) made while entries are queued grants the next
\* entry; to do so it has to win the compare-and-swap and go on to pop.
C9_Original ==
    [][\A r \in Req :
          (Stalled /\ queue # <<>> /\ (FuturePoll(r) \/ UnlockCas(r))) =>
              pc'[r] \in {"p_pop", "u_pop"}]_vars

\* C9, amended: the stall is permanent.  After a failed grant the status
\* stays Locked, every later process_queue call loses the compare-and-swap
\* and returns Ok without popping, no notifier is fired, no guard is
\* produced, and the entries queued behind stay in the queue for as long as
\* Inner exists.
C9_StallPermanent ==
    /\ [](Stalled => (state = 1 /\ \A q \in Req : ~GuardLive(q)))
    /\ [][Stalled =>
            /\ (Stalled' \/ strong' = 0)
            /\ \A q \in Req : chan'[q] = "sent" => chan[q] = "sent"
            /\ granted' = granted
            /\ \A q \in Req : InQueue(q) => (InQueue(q)' \/ strong' = 0)
            /\ \A r \in Req : (FuturePoll(r) \/ UnlockCas(r)) => pc'[r] \in {"p_ok", "u_ok"}]_vars

\* After a failed grant (a poll has popped the entry of a dropped future
\* and panicked; its future is still there, parked), another request, alive
\* and still queued, is polled: its process_queue call has returned Ok and
\* its notifier has not been fired.
C9_Witness ==
    \E r, q \in Req :
        /\ r # q
        /\ Stalled
        /\ pc[r] = "pending" /\ ~notified[r] /\ InQueue(r) /\ chan[r] = "open"
        /\ pc[q] = "p_ok"
        /\ InQueue(q) /\ rxAlive[q] /\ chan[q] = "open"
        /\ state = 1

\* C2 as claimed, in the case most favourable to it (no future at all is
\* dropped, every guard is eventually dropped, every request is waited
\* on): a pending request is eventually granted a guard.
C2_EventualService ==
    \A r \in Req :
        [](pc[r] = "pending" =>
              <>(pc[r] = "guard" \/ \E q \in Req : FutureDropped(q)))

\* C4: queued waiters.  When all requests are enqueued before the first
\* poll and no future is dropped, guards are produced in enqueue order, a
\* later request has no guard while an earlier one's guard is live, and
\* every request waited on is eventually granted its guard.
C4_QueuedWaiters ==
    /\ [](batch => \A i, j \in 1..Len(granted) : i < j => granted[i] < granted[j])
    /\ [](batch => \A r, q \in Req :
              (r < q /\ GuardLive(r)) =>
                  pc[q] \in {"idle", "pending", "p_ok"} /\ chan[q] # "sent")
    /\ \A r \in Req : [](pc[r] = "pending" => <>(pc[r] = "guard" \/ ~batch))

\* All requests were enqueued before the first poll and each was waited
\* on; the last one holds its guard after all the others were granted and
\* released, and every wait() has dropped the future it took.
C4_Witness ==
    /\ batch
    /\ Len(granted) = NReq
    /\ pc[NReq] = "guard"
    /\ \A r \in Req \ {NReq} : pc[r] = "done"
    /\ \A r \in Req : waited[r] /\ ~rxAlive[r]

\* The process_queue call made for r has won the compare-and-swap and has
\* not yet completed its pop and send, or its store of 0.
InWindow(r) == pc[r] \in {"p_pop", "p_send", "p_revert", "u_pop", "u_send", "u_revert"}

\* C11: single CAS winner.  At most one process_queue call at a time is
\* between its successful compare-and-swap and the end of its pop and send
\* or of its revert; so pops are never concurrent, and while a winner is in
\* that window the status is Locked, no guard is live, and no step of
\* another participant stores Unlocked.
C11_SingleWinner ==
    /\ [](Cardinality({r \in Req : InWindow(r)}) <= 1)
    /\ [](\A r \in Req : InWindow(r) => (state = 1 /\ \A q \in Req : ~GuardLive(q)))
    /\ [][\A r \in Req : (InWindow(r) /\ state' = 0) => ProcessQueueRevert(r)]_vars
    /\ [][\A r \in Req : (InWindow(r) /\ queue' # queue) =>
            (ProcessQueuePop(r) \/ \E q \in Req : Lock(q))]_vars

\* A winner is about to fire the entry it popped while the process_queue
\* call of another poll has lost the compare-and-swap.
C11_Witness ==
    \E r, q \in Req :
        /\ r # q
        /\ pc[r] \in {"p_send", "u_send"}
        /\ pc[q] = "p_ok" /\ chan[q] = "open"

\* C12: CAS loss is a no-op.  A process_queue call that finds the status
\* Locked returns Ok and changes neither the status, the queue, any
\* channel or wake-up, nor the value.
C12_CasLossNoOp ==
    [][\A r \in Req :
          ((FuturePoll(r) \/ UnlockCas(r)) /\ state = 1) =>
              /\ pc'[r] \in {"p_ok", "u_ok"}
              /\ state' = 1
              /\ queue' = queue
              /\ chan' = chan /\ notified' = notified /\ rxAlive' = rxAlive
              /\ req' = req
              /\ cell' = cell]_vars

\* A poll found the lock held by a live guard: its process_queue call
\* has returned Ok with its own entry still queued and unfired.
C12_Witness ==
    \E r, q \in Req :
        /\ r # q
        /\ GuardLive(r)
        /\ pc[q] = "p_ok" /\ InQueue(q) /\ chan[q] = "open"
        /\ state = 1

\* C13 as claimed: a poll of a pending future that has found the status
\* Unlocked and has fired the channel of the head entry, which belongs to
\* another live future, returns not ready: the polled future remains
\* pending.
C13_Original ==
    [][\A r \in Req : (PollRx(r) /\ helped[r] # 0) => pc'[r] = "pending"]_vars

\* C13, amended: opportunistic advancement on poll.  Every poll of a
\* pending future runs process_queue first, whatever the position of its
\* own entry: with the status Unlocked it wins the compare-and-swap, pops
\* the head of the queue and, when the head belongs to another future that
\* is alive, fires that future's channel and not its own and leaves the
\* status Locked.  Its own rx.poll then keeps it pending if nobody has
\* fired its channel meanwhile; if the head's future was polled to its
\* guard, that guard's drop has stored Unlocked and a process_queue call
\* (of that drop or of another poll) has fired the polling future's channel
\* before its rx.poll, the same poll returns the guard.
C13_PollAdvancesHead ==
    /\ [][\A r \in Req : (FuturePoll(r) /\ state = 0) =>
            (pc'[r] = "p_pop" /\ state' = 1)]_vars
    /\ [][\A r \in Req : (pc[r] = "p_pop" /\ ProcessQueuePop(r)) =>
            (queue # << >> /\ req'[r] = Head(queue) /\ pc'[r] = "p_send")]_vars
    /\ [][\A r \in Req :
            (pc[r] = "p_send" /\ ProcessQueueSend(r) /\ req[r] # r /\ rxAlive[req[r]]) =>
                /\ chan[req[r]] = "open" /\ chan'[req[r]] = "sent"
                /\ notified'[req[r]] = (notified[req[r]] \/ parked[req[r]])
                /\ helped'[r] = req[r]
                /\ chan[r] = "open" /\ chan'[r] = "open"
                /\ state = 1 /\ state' = 1
                /\ pc'[r] = "p_ok"]_vars
    /\ [][\A r \in Req : (PollRx(r) /\ chan[r] = "open") => pc'[r] = "pending"]_vars
    /\ [][\A r \in Req : (PollRx(r) /\ helped[r] # 0 /\ chan[r] # "open") =>
            /\ chan[r] = "sent"
            /\ pc'[r] = "guard"
            /\ \E i \in 1..Len(granted) : granted[i] = helped[r]
            /\ pc[helped[r]] \in {"u_cas", "u_pop", "u_send", "u_revert", "u_ok", "u_err",
                                   "done", "panicked"}]_vars

\* A poll of the request at the back of the queue has fired the channel of
\* the request at the head and has returned not ready: the polled future
\* is pending, its own entry still queued.
C13_Witness ==
    \E r, q \in Req :
        /\ r # q
        /\ helped[r] = q
        /\ pc[r] = "pending" /\ ~notified[r] /\ InQueue(r) /\ chan[r] = "open"
        /\ chan[q] = "sent" /\ pc[q] = "pending" /\ notified[q]
        /\ state = 1
        /\ granted = << >>

\* C14: one guard per request.  A guard is produced only by the rx.poll of
\* a future whose own channel has been fired; no request gets two guards;
\* a poll of a future that has produced its guard panics without producing
\* a guard and without changing the status, the queue or any channel, and
\* it does so each time it is made, while the guard is live and after.
C14_OneGuardPerRequest ==
    /\ [][\A r \in Req :
            (Len(granted') > Len(granted)) /\ granted'[Len(granted')] = r =>
                /\ pc[r] = "p_ok" /\ chan[r] = "sent" /\ rxAlive[r]
                /\ pc'[r] = "guard"
                /\ granted' = Append(granted, r)]_vars
    /\ [][\A r \in Req : (pc'[r] = "guard" /\ pc[r] # "guard") =>
            (chan[r] = "sent" /\ granted' = Append(granted, r))]_vars
    /\ [](\A i, j \in 1..Len(granted) : i # j => granted[i] # granted[j])
    /\ [][\A r \in Req : PollCompleted(r) =>
            /\ misuse'
            /\ granted' = granted
            /\ pc' = pc
            /\ state' = state
            /\ queue' = queue
            /\ chan' = chan
            /\ rxAlive' = rxAlive
            /\ strong' = strong]_vars
    /\ [](misuse => \E r \in Req : Completed(r))

\* A future that had produced its guard was polled again while the guard
\* was live and a later request was queued: still one guard, one grant.
C14_Witness ==
    \E r, q \in Req :
        /\ misuse
        /\ pc[r] = "guard" /\ rxAlive[r]
        /\ InQueue(q) /\ pc[q] = "pending"
        /\ granted = <<r>>
        /\ state = 1

\* C15: strict FIFO under all interleavings.  Requests are numbered in the
\* order of their pushes.  The queue is always in push order, every pop
\* takes the oldest entry not yet popped (so the n-th firing attempt is for
\* the n-th entry pushed), and guards are produced in push order, each only
\* after every request pushed ahead of it has left the queue.
C15_StrictFifo ==
    /\ [](\A i, j \in 1..Len(queue) : i < j => queue[i] < queue[j])
    /\ [][\A r \in Req : (ProcessQueuePop(r) /\ queue # << >>) =>
            /\ req'[r] = Head(queue)
            /\ \A q \in Req : (Locked(q) /\ q < req'[r]) => ~InQueue(q)
            /\ \A q \in Req : (Locked(q) /\ q > req'[r] /\ strong > 0) => InQueue(q)]_vars
    /\ [](\A i, j \in 1..Len(granted) : i < j => granted[i] < granted[j])
    /\ [](\A i \in 1..Len(granted) : \A q \in Req : q < granted[i] => ~InQueue(q))

\* Without any serialisation of the calls (a lock() was issued while a guard
\* existed and polls raced) three guards have been produced, in push order.
C15_Witness ==
    /\ Len(granted) = NReq
    /\ ~serial

\* C16: no lost wake-up.  The program is never at rest with the status
\* Unlocked while the queue holds the entry of a live future that is
\* suspended after a poll that was not ready.
C16_NoLostWakeup ==
    ~ ( /\ state = 0
        /\ \A r \in Req : pc[r] \in {"idle", "pending", "done"}
        /\ \A r \in Req : pc[r] = "pending" => ~notified[r]
        /\ \A r \in Req : ~FutureDropped(r)
        /\ \E q \in Req : /\ InQueue(q)
                           /\ pc[q] = "pending"
                           /\ rxAlive[q]
                           /\ ~notified[q]
                           /\ chan[q] = "open" )

\* A request is fired and has not been polled to a guard.
FiredUngranted(r) ==
    /\ chan[r] = "sent"
    /\ \A i \in 1..Len(granted) : granted[i] # r

\* C17: the status tracks ownership.  Whenever a guard is live, or a
\* channel has been fired for a future that has not been polled to its
\* guard, the status is Locked.
C17_StatusTracksOwnership ==
    \A r \in Req : (GuardLive(r) \/ FiredUngranted(r)) => state = 1

\* A request has been fired by the drop of the previous guard and has not
\* been polled since; no guard is live.
C17_Witness ==
    \E r \in Req :
        /\ FiredUngranted(r) /\ pc[r] = "pending"
        /\ Len(granted) >= 1
        /\ \A q \in Req : ~GuardExists(q)

\* The future of r exists and has not produced its guard.
FuturePending(r) == pc[r] \in {"pending", "p_pop", "p_send", "p_revert", "p_ok", "p_err"}

\* C18: direct access never overlaps locked access.  A get_mut call made
\* while a guard exists or a future is pending returns None.
C18_GetMutExcluded ==
    [][(GetMut /\ \E r \in Req : GuardExists(r) \/ FuturePending(r)) => gm' = "none"]_vars

\* get_mut has returned None while a future was pending in the queue and
\* no guard existed, with the status Unlocked.
C18_Witness ==
    /\ gm = "none"
    /\ state = 0
    /\ \E r \in Req : pc[r] = "pending" /\ InQueue(r)
    /\ \A r \in Req : ~GuardExists(r)
    /\ strong = 2

\* C19: the cancellation result is unreachable.  No poll returns
\* Err(Canceled): a channel whose sender was dropped without being fired
\* belongs to a future that is being dropped or was dropped, which nobody
\* can poll, and no poll ends cancelled by its channel.
C19_NoCancellation ==
    /\ \A r \in Req : pc[r] # "rx_canceled"
    /\ \A r \in Req : chan[r] = "closed" => FutureDropped(r)

\* A sender has been dropped unfired (the send failed on a dropped
\* receiver) while another future is alive and has polled its own channel
\* after that: the poll was not ready, not cancelled.
C19_Witness ==
    \E r, q \in Req :
        /\ r # q
        /\ chan[q] = "closed"
        /\ pc[r] = "pending" /\ ~notified[r] /\ chan[r] = "open" /\ rxAlive[r]

\* The future of r was dropped after its channel was fired and before a
\* poll returned its guard.
Abandoned(r) == FutureDropped(r) /\ chan[r] = "sent"

\* C20: an abandoned grant locks permanently.  Once a future is dropped
\* after its channel was fired and before it was polled to its guard, it
\* never gets a guard, the status is Locked in every later state, and no
\* channel is fired and no guard produced for any request again.
C20_AbandonedGrant ==
    /\ [](\A r \in Req : Abandoned(r) => state = 1)
    /\ [][\A r \in Req : Abandoned(r) =>
            /\ Abandoned(r)'
            /\ state' = 1
            /\ granted' = granted
            /\ \A q \in Req : chan'[q] = "sent" => chan[q] = "sent"]_vars

\* A fired future was dropped; a later request is queued behind it and has
\* been polled since without result.
C20_Witness ==
    \E r, q \in Req :
        /\ Abandoned(r)
        /\ r < q /\ InQueue(q) /\ pc[q] = "pending" /\ ~notified[q]
        /\ state = 1

====
